---- MODULE Spec2Model ----
(***************************************************************************)
(* Session orchestrator of the transcript generator: the presigned-upload  *)
(* client (src/frontend/src/app/page.tsx) and the FFmpeg client            *)
(* (src/unnamed/part_000, lines 1-477).  The state is the component's      *)
(* useState cells; every handler is split at its awaits, each continuation *)
(* being one action.  State updates made in one synchronous stretch are    *)
(* batched into one commit, after which the registered effect cleanup      *)
(* runs when its dependencies changed.                                     *)
(***************************************************************************)
EXTENDS Integers, Sequences, FiniteSets, TLC

\* ------------------------------------------------------------------ bounds
MaxActs == 4          \* user operations (select, submit, clean up, download) per session
MaxCount == 3         \* largest speaker count entered in the form
MaxHours == 100       \* durations rendered are below this many hours
MaxLiveActs == 3      \* user operations per session where progress is examined

\* ------------------------------------------------------------------ values
NullStr == "<null>"            \* the null of a string | null cell
NoFile == "none"               \* file === null
FileChoices == {"audio", "video", "other"}   \* MIME category of the chosen file
NoTranscript == [present |-> FALSE, turns |-> <<>>]
TurnSeqs == {<<>>, <<1, 2>>}                \* transcript_turns a response may carry
Durations == {150}                           \* seconds the audio element may report
Details == {"", "service detail"}            \* tj.detail: absent or a message
StatusTexts == {"", "Internal Server Error"} \* resp.statusText ("" under HTTP/2)

VARIABLES
  variant,          \* which client is running: "presigned" | "ffmpeg"
  mounted,          \* the component is mounted
  file, isProcessing, statusMessage, error,
  transcriptTurns, geminiFileName, r2ObjectKey, audioDuration,
  ffmpegLoaded,     \* FFmpeg client only
  loadPc,           \* FFmpeg client: loadFFmpeg's position
  effect,           \* <<geminiFileName, r2ObjectKey>> closed over by the registered effect cleanup
  run,              \* the latest handleSubmit invocation
  exp,              \* the latest handleDownloadDocx invocation
  pend,             \* release fetches in flight, by origin
  relCalls,         \* release network calls issued so far: <<g, k>> -> count
  uploaded,         \* object keys whose PUT succeeded
  exportCalls,      \* /generate_docx requests issued
  nRuns,            \* handleSubmit invocations so far (names the run's handles)
  nActs,            \* user operations so far
  ev,               \* the operation that made the last step
  specifySpeakers, numSpeakers, speakerNames,    \* the speaker part of the form
  speakerNamesSent, \* speaker_names of the latest /transcribe request body built
  answer,           \* what the fetch whose settling made the last step had to say
  seconds,          \* a duration in whole seconds, as an audio element reports it
  rendered          \* its renderings by hhmmss and by formatDuration

vars == <<variant, mounted, file, isProcessing, statusMessage, error,
          transcriptTurns, geminiFileName, r2ObjectKey, audioDuration,
          ffmpegLoaded, loadPc, effect, run, exp, pend, relCalls, uploaded,
          exportCalls, nRuns, nActs, ev,
          specifySpeakers, numSpeakers, speakerNames, speakerNamesSent, answer,
          seconds, rendered>>

\* The duration handed to the two renderers and what they made of it.
durVars == <<seconds, rendered>>

\* The speaker part of the form, which no step of a run, an export or a release
\* writes, and the cells those steps work on.
formVars == <<specifySpeakers, numSpeakers, speakerNames, speakerNamesSent>>
sessionVars == <<variant, mounted, file, isProcessing, statusMessage, error,
                 transcriptTurns, geminiFileName, r2ObjectKey, audioDuration,
                 ffmpegLoaded, loadPc, effect, run, exp, pend, relCalls, uploaded,
                 exportCalls, nRuns, nActs, answer>>

\* A speaker identifier is the sequence of its characters.
EmptyName == <<>>
Whitespace == {" ", "\t"}
\* What the user may type into an identifier field.
TypedNames == {EmptyName, <<" ">>, <<"a", "n">>, <<" ", "B", "\t">>}
\* What the user may enter as the speaker count: "" (written 0 - 1 - MaxCount, the
\* field emptied) or an integer.
EmptiedCount == 0 - 1 - MaxCount
CountInputs == (-1 .. MaxCount) \cup {EmptiedCount}
\* speaker_names of a request body: none built yet, null, or a list.
NoBody == [kind |-> "none", names |-> <<>>]

\* The content-disposition header of a response: absent, or an attachment naming a
\* file or not.
NoHeader == [present |-> FALSE, attachment |-> FALSE, filename |-> ""]
Dispositions ==
  {NoHeader} \cup {[present |-> TRUE, attachment |-> TRUE, filename |-> n] :
                     n \in {"", "service.docx"}}
\* The last step consumed no /transcribe or /generate_docx answer.
NoAnswer == [net |-> "none", ok |-> FALSE, json |-> FALSE, detail |-> "", statusText |-> "",
             disp |-> NoHeader, echo |-> 0]
\* The part of an answer an error message or a download name can be made of.
Heard(a) == [net |-> a.net, ok |-> a.ok, json |-> a.json, detail |-> a.detail,
             statusText |-> a.statusText,
             disp |-> IF "disp" \in DOMAIN a THEN a.disp ELSE NoHeader,
             echo |-> IF "echo" \in DOMAIN a THEN a.echo ELSE 0]

\* ------------------------------------------------------------------ helpers
\* JavaScript's a || b on strings (undefined and "" are both falsy).
JsOr(a, b) == IF a # "" /\ a # NullStr THEN a ELSE b

DigitStr == <<"0", "1", "2", "3", "4", "5", "6", "7", "8", "9">>
\* String(n) for a natural number n
RECURSIVE NatStr(_)
NatStr(n) == IF n < 10 THEN DigitStr[n + 1] ELSE NatStr(n \div 10) \o DigitStr[(n % 10) + 1]
\* String(n).padStart(2, "0")
Pad2(n) == IF n < 10 THEN "0" \o NatStr(n) ELSE NatStr(n)

\* [3600, 60, 1].map(d => String(Math.floor(s / d) % 60).padStart(2, "0")).join(":")
hhmmss(s) ==
  Pad2((s \div 3600) % 60) \o ":" \o Pad2((s \div 60) % 60) \o ":" \o Pad2(s % 60)

\* formatDuration: hours = floor(s / 3600), minutes = floor((s % 3600) / 60),
\* secs = floor(s % 60), each toString().padStart(2, '0')
formatDuration(s) ==
  Pad2(s \div 3600) \o ":" \o Pad2((s % 3600) \div 60) \o ":" \o Pad2(s % 60)

\* Nothing rendered yet.
NoRendering == [hhmmss |-> "", formatDuration |-> ""]

AddCall(calls, c) ==
  IF c \in DOMAIN calls THEN [calls EXCEPT ![c] = @ + 1] ELSE calls @@ (c :> 1)

Count(calls, c) == IF c \in DOMAIN calls THEN calls[c] ELSE 0

IdleRun == [pc |-> "idle", id |-> 0, file |-> NoFile, key |-> 0, stale |-> FALSE,
            reqs |-> {}, wrote |-> FALSE, outcome |-> "none", failedAt |-> "none",
            badAt |-> "none", recv |-> <<>>, probed |-> FALSE]
IdleExp == [pc |-> "idle", outcome |-> "none", sent |-> <<>>, file |-> NoFile,
            saved |-> "", duration |-> ""]

\* ------------------------------------------------------------------ effect
\* useEffect(() => () => { if (g || k) cleanupFiles(); }, [g, k]): the closure the
\* effect registers after a commit with the handles (g2, k2).
\* (as it would be with an empty dependency list: the first closure is kept)
EffectCapturedOnce(old, g2, k2) == old

EffectCaptured(old, g2, k2) == <<g2, k2>>

\* (as it would be with the early return taken when either handle is null)
CleanupIssuesBoth(g, k) == g # 0 /\ k # 0

\* cleanupFiles as called from a closure holding (g, k): does it issue a fetch?
\* The fetch is written <<g, k>>: /cleanup/g?r2_object_key=k when both are set,
\* /cleanup/g when k is null (0), /cleanup_r2/k when g is null (0).
CleanupIssues(g, k) == g # 0 \/ k # 0

\* One commit of the component: the handler has set the handles to (g2, k2), the
\* status to st2, the issued release calls to rc2 and the pending ones to pd2.
\* When the effect's dependencies changed, the cleanup registered by the previous
\* render runs with the handles it closed over, then the effect is registered anew.
Commit(g2, k2, st2, rc2, pd2) ==
  LET changed == <<g2, k2>> # <<geminiFileName, r2ObjectKey>>
      fire == changed /\ variant = "presigned"
              /\ (effect[1] # 0 \/ effect[2] # 0) /\ CleanupIssues(effect[1], effect[2])
  IN /\ geminiFileName' = g2
     /\ r2ObjectKey' = k2
     /\ effect' = IF changed THEN EffectCaptured(effect, g2, k2) ELSE effect
     /\ statusMessage' = IF fire THEN "Cleaning up..." ELSE st2
     /\ relCalls' = IF fire THEN AddCall(rc2, effect) ELSE rc2
     /\ pend' = IF fire THEN pd2 + 1 ELSE pd2

\* A commit that leaves the handles alone.
SetStatus(st2) == Commit(geminiFileName, r2ObjectKey, st2, relCalls, pend)

NoCommit == UNCHANGED <<geminiFileName, r2ObjectKey, effect, statusMessage, relCalls, pend>>

\* ------------------------------------------------------------------ init
InitSession ==
  /\ variant \in {"presigned", "ffmpeg"}
  /\ mounted = TRUE
  /\ file = NoFile
  /\ isProcessing = FALSE
  /\ statusMessage = IF variant = "ffmpeg" THEN "Loading FFmpeg assembly..." ELSE ""
  /\ error = NullStr
  /\ transcriptTurns = NoTranscript
  /\ geminiFileName = 0
  /\ r2ObjectKey = 0
  /\ audioDuration = NullStr
  /\ ffmpegLoaded = FALSE
  /\ loadPc = IF variant = "ffmpeg" THEN "loading" ELSE "none"
  /\ effect = <<0, 0>>
  /\ run = IdleRun
  /\ exp = IdleExp
  /\ pend = 0
  /\ relCalls = <<>>
  /\ uploaded = {}
  /\ exportCalls = 0
  /\ nRuns = 0
  /\ nActs = 0
  /\ ev = "init"
  /\ specifySpeakers = FALSE
  /\ numSpeakers = 1
  /\ speakerNames = <<EmptyName>>
  /\ speakerNamesSent = NoBody
  /\ answer = NoAnswer

\* The state after construction.
Init == InitSession /\ seconds = 0 /\ rendered = NoRendering


\* Writes to the useState cells are dropped once the component is unmounted.
Frozen == UNCHANGED <<file, isProcessing, error, transcriptTurns, audioDuration,
                      geminiFileName, r2ObjectKey, effect, statusMessage>>

\* ------------------------------------------------------------------ presigned-upload client
\* The presigned-upload client never looks at the MIME category: two categories
\* stand for all.
FilesP == {"audio", "other"}

\* (as it would be with handleFileChange leaving the handles alone)
HandleAfterFileChangeKept(h) == h

\* setGeminiFileName(null); setR2ObjectKey(null): a handle cell that held h, after
\* handleFileChange.
HandleAfterFileChange(h) == 0

\* handleFileChange: f is e.target.files?.[0] || null.
HandleFileChangeP(f) ==
  /\ variant = "presigned" /\ mounted
  /\ nActs < MaxActs
  /\ file' = f
  /\ transcriptTurns' = NoTranscript
  /\ error' = NullStr
  /\ audioDuration' = NullStr
  /\ Commit(HandleAfterFileChange(geminiFileName), HandleAfterFileChange(r2ObjectKey), "",
            relCalls, pend)
  /\ run' = IF run.pc # "idle" THEN [run EXCEPT !.stale = TRUE] ELSE run
  /\ nActs' = nActs + 1
  /\ ev' = "handleFileChange"
  /\ answer' = NoAnswer
  /\ UNCHANGED <<formVars, durVars, variant, mounted, isProcessing, ffmpegLoaded, loadPc, exp,
                 uploaded, exportCalls, nRuns>>

\* The submit button: disabled={!file || isProcessing}.
SubmitEnabled == mounted /\ file # NoFile /\ ~isProcessing

\* handleSubmit up to its first await: the presign request is issued.
HandleSubmitP ==
  /\ variant = "presigned" /\ SubmitEnabled
  /\ nActs < MaxActs
  /\ isProcessing' = TRUE
  /\ error' = NullStr
  /\ SetStatus("Creating secure upload...")
  /\ run' = [pc |-> "presign", id |-> nRuns + 1, file |-> file, key |-> 0,
             stale |-> FALSE, reqs |-> {"presign"}, wrote |-> FALSE,
             outcome |-> "none", failedAt |-> "none", badAt |-> "none",
             recv |-> <<>>, probed |-> FALSE]
  /\ nRuns' = nRuns + 1
  /\ nActs' = nActs + 1
  /\ ev' = "handleSubmit"
  /\ answer' = NoAnswer
  /\ UNCHANGED <<formVars, durVars, variant, mounted, file, transcriptTurns, audioDuration, ffmpegLoaded,
                 loadPc, exp, uploaded, exportCalls>>

\* isProcessing once the try block is left, were it cleared at the end of the try
\* block only.
IsProcessingAfterTry(failed) == failed

\* finally { setIsProcessing(false) }: isProcessing once the try block is left,
\* by its end (failed = FALSE) or through the catch (failed = TRUE).
IsProcessingFinally(failed) == FALSE

\* catch (err) { setError(msg); setStatusMessage("") } finally { setIsProcessing(false) }
RunFailsP(r, step, msg) ==
  /\ run' = [r EXCEPT !.pc = "idle", !.outcome = "failed", !.failedAt = step]
  /\ IF mounted
       THEN /\ error' = msg
            /\ isProcessing' = IsProcessingFinally(TRUE)
            /\ SetStatus("")
            /\ UNCHANGED <<file, transcriptTurns, audioDuration>>
       ELSE /\ Frozen
            /\ UNCHANGED <<relCalls, pend>>
  /\ UNCHANGED <<uploaded>>

\* The run record with the step at which a request of it failed (its fetch rejected
\* or its response was not ok) noted, whatever the handler makes of it.
Saw(failed, step) == IF failed /\ run.badAt = "none" THEN [run EXCEPT !.badAt = step] ELSE run

\* The outcomes of a fetch: the response is ok, it carries an error status, or the
\* fetch rejects (network failure).
FetchOutcomes == {"ok", "http", "reject"}

\* (as it would be without the pre.ok check: only a rejected fetch throws)
PresignFailsOnReject(o) == o = "reject"

\* if (!pre.ok) throw new Error(`presign ${pre.status}`)
PresignFails(o) == o # "ok"
PresignMessage(o) == IF o = "reject" THEN "Failed to fetch" ELSE "presign 500"

\* The presign request settles; on success the PUT is issued.
PresignSettles(o) ==
  /\ variant = "presigned" /\ run.pc = "presign"
  /\ IF PresignFails(o)
       THEN RunFailsP(Saw(o # "ok", "presign"), "presign", PresignMessage(o))
       ELSE /\ run' = [Saw(o # "ok", "presign") EXCEPT
                        !.pc = "put", !.key = run.id, !.reqs = @ \cup {"put"}]
            /\ IF mounted
                 THEN /\ SetStatus("Uploading file...")
                      /\ UNCHANGED <<file, isProcessing, error, transcriptTurns, audioDuration>>
                 ELSE Frozen /\ UNCHANGED <<relCalls, pend>>
            /\ UNCHANGED uploaded
  /\ ev' = "presignSettled"
  /\ answer' = NoAnswer
  /\ UNCHANGED <<formVars, durVars, variant, mounted, ffmpegLoaded, loadPc, exp, exportCalls, nRuns,
                 nActs>>

\* (as it would be without the put.ok check: only a rejected fetch throws)
PutFailsOnReject(o) == o = "reject"

\* if (!put.ok) throw new Error(`upload ${put.status}`)
PutFails(o) == o # "ok"
PutMessage(o) == IF o = "reject" THEN "Failed to fetch" ELSE "upload 500"

\* The PUT settles; on success the object exists and /transcribe is requested.
PutSettles(o) ==
  /\ variant = "presigned" /\ run.pc = "put"
  /\ IF PutFails(o)
       THEN RunFailsP(Saw(o # "ok", "put"), "put", PutMessage(o))
       ELSE /\ run' = [Saw(o # "ok", "put") EXCEPT
                        !.pc = "transcribe", !.reqs = @ \cup {"transcribe"}]
            /\ uploaded' = IF o = "ok" THEN uploaded \cup {run.key} ELSE uploaded
            /\ IF mounted
                 THEN /\ SetStatus("Requesting transcript...")
                      /\ UNCHANGED <<file, isProcessing, error, transcriptTurns, audioDuration>>
                 ELSE Frozen /\ UNCHANGED <<relCalls, pend>>
  /\ ev' = "putSettled"
  /\ answer' = NoAnswer
  /\ UNCHANGED <<formVars, durVars, variant, mounted, ffmpegLoaded, loadPc, exp, exportCalls, nRuns,
                 nActs>>

\* What /transcribe may answer: the fetch rejects, or a response arrives whose body
\* parses as JSON or not; an error body carries a detail or none, a success body
\* the turns and, optionally, an echoed storage key (0: none).
TranscribeAnswers ==
  {[net |-> "reject", ok |-> FALSE, json |-> FALSE, detail |-> "", statusText |-> "",
    turns |-> <<>>, echo |-> 0]}
  \cup {[net |-> "resolve", ok |-> FALSE, json |-> j, detail |-> d, statusText |-> s,
         turns |-> <<>>, echo |-> 0] :
          j \in BOOLEAN, d \in Details, s \in StatusTexts}
  \cup {[net |-> "resolve", ok |-> TRUE, json |-> FALSE, detail |-> "", statusText |-> "OK",
          turns |-> <<>>, echo |-> 0]}
  \cup {[net |-> "resolve", ok |-> TRUE, json |-> TRUE, detail |-> "", statusText |-> "OK",
         turns |-> t, echo |-> e] : t \in TurnSeqs, e \in {0, 1}}

\* The request itself failed: the fetch rejected or the response is not ok.
RequestFailed(a) == a.net = "reject" \/ ~a.ok

\* const tj = await tr.json(); if (!tr.ok) throw new Error(tj.detail || tr.statusText)
TranscribeFailsP(a) == a.net = "reject" \/ ~a.json \/ ~a.ok
TranscribeMessageP(a) ==
  IF a.net = "reject" THEN "Failed to fetch"
  ELSE IF ~a.json THEN "Unexpected token < in JSON"
  ELSE JsOr(IF a.json THEN a.detail ELSE "", a.statusText)

\* tj.r2_object_key || object_key (an echoed key is written -key: the service's own name)
StoredKey(a, key) == IF a.echo # 0 THEN -key ELSE key

\* /transcribe settles; on success the transcript and both handles are set and the
\* duration probe starts.
TranscribeSettlesP(a) ==
  /\ variant = "presigned" /\ run.pc = "transcribe"
  /\ IF TranscribeFailsP(a)
       THEN RunFailsP(Saw(RequestFailed(a), "transcribe"), "transcribe",
                      TranscribeMessageP(a))
       ELSE /\ run' = [Saw(RequestFailed(a), "transcribe") EXCEPT
                        !.pc = "duration", !.wrote = TRUE, !.recv = a.turns,
                        !.reqs = @ \cup {"duration"}]
            /\ IF mounted
                 THEN /\ transcriptTurns' = [present |-> TRUE, turns |-> a.turns]
                      /\ Commit(run.id, StoredKey(a, run.key), "Calculating duration...",
                                relCalls, pend)
                      /\ UNCHANGED <<file, isProcessing, error, audioDuration>>
                 ELSE Frozen /\ UNCHANGED <<relCalls, pend>>
            /\ UNCHANGED uploaded
  /\ ev' = "transcribeSettled"
  /\ answer' = Heard(a)
  /\ UNCHANGED <<formVars, durVars, variant, mounted, ffmpegLoaded, loadPc, exp, exportCalls, nRuns,
                 nActs>>

\* getDuration: 0 stands for the audio element's onerror, d > 0 for onloadedmetadata.
DurationSettlesP(d) ==
  /\ variant = "presigned" /\ run.pc = "duration"
  /\ IF d = 0
       THEN RunFailsP(run, "duration", "Could not read duration")
       ELSE /\ run' = [run EXCEPT !.pc = "idle", !.outcome = "ok", !.probed = TRUE]
            /\ IF mounted
                 THEN /\ audioDuration' = hhmmss(d)
                      /\ isProcessing' = IsProcessingFinally(FALSE)
                      /\ SetStatus("Transcription complete!")
                      /\ UNCHANGED <<file, error, transcriptTurns>>
                 ELSE Frozen /\ UNCHANGED <<relCalls, pend>>
            /\ UNCHANGED uploaded
  /\ ev' = "durationSettled"
  /\ answer' = NoAnswer
  /\ UNCHANGED <<formVars, durVars, variant, mounted, ffmpegLoaded, loadPc, exp, exportCalls, nRuns,
                 nActs>>


\* ------------------------------------------------------------------ release
\* The "Clean Up Temporary Files" button: rendered inside {transcriptTurns && ...}
\* when a handle is held; disabled={isProcessing}.
CleanupEnabled ==
  mounted /\ transcriptTurns.present /\ (geminiFileName # 0 \/ r2ObjectKey # 0)
  /\ ~isProcessing

\* cleanupFiles up to its await, called by the user: one release fetch naming the
\* handles of the current render (a combined call when both are set).
CleanupFiles ==
  /\ variant = "presigned" /\ mounted
  /\ nActs < MaxActs
  /\ IF CleanupIssues(geminiFileName, r2ObjectKey)
       THEN Commit(geminiFileName, r2ObjectKey, "Cleaning up...",
                   AddCall(relCalls, <<geminiFileName, r2ObjectKey>>),
                   pend + 1)
       ELSE NoCommit
  /\ nActs' = nActs + 1
  /\ ev' = "cleanupFiles"
  /\ answer' = NoAnswer
  /\ UNCHANGED <<formVars, durVars, variant, mounted, file, isProcessing, error, transcriptTurns,
                 audioDuration, ffmpegLoaded, loadPc, run, exp, uploaded, exportCalls,
                 nRuns>>

\* The user clicks the "Clean Up Temporary Files" button.
CleanupFilesClick == CleanupEnabled /\ CleanupFiles

\* cleanupFiles invoked while its button is not offered.
CleanupFilesCall == ~CleanupEnabled /\ CleanupFiles

\* Does cleanupFiles clear the handles after its fetch settled with outcome o?
\* The two setters follow the await inside the try: a rejection skips them.
CleanupClears(o) == o # "reject"

\* (as it would be with the catch recording the failure the way handleSubmit does)
ErrorAfterCleanupSurfaced(e, o) == IF o = "reject" THEN "Failed to fetch" ELSE e

\* catch { setStatusMessage("Cleanup attempted ...") }: cleanupFiles has no setError
\* call; the error cell after its fetch settled with outcome o.
ErrorAfterCleanup(e, o) == e

\* A release fetch settles.  fetch resolves on any HTTP status (resp.ok is not
\* looked at) and rejects on a network failure.
ReleaseSettles(o) ==
  /\ variant = "presigned" /\ pend > 0
  /\ LET pd2 == pend - 1
     IN IF mounted
          THEN IF CleanupClears(o)
                 THEN Commit(0, 0, "Temporary files deleted.", relCalls, pd2)
                 ELSE Commit(geminiFileName, r2ObjectKey,
                             "Cleanup attempted (see server logs for details).",
                             relCalls, pd2)
          ELSE /\ pend' = pd2
               /\ UNCHANGED <<geminiFileName, r2ObjectKey, effect, statusMessage, relCalls>>
  /\ error' = IF mounted THEN ErrorAfterCleanup(error, o) ELSE error
  /\ ev' = IF o = "reject" THEN "releaseRejected" ELSE "releaseResolved"
  /\ answer' = NoAnswer
  /\ UNCHANGED <<formVars, durVars, variant, mounted, file, isProcessing, transcriptTurns,
                 audioDuration, ffmpegLoaded, loadPc, run, exp, uploaded, exportCalls,
                 nRuns, nActs>>

\* (as it would be with the teardown kept waiting for the release it dispatched)
MountedAfterTeardownAwaited(dispatched) == dispatched

\* return () => { if (g || k) cleanupFiles(); }: the promise cleanupFiles returns is
\* dropped, so the teardown is over when the effect cleanup returns, whether it
\* dispatched a release or not.
MountedAfterTeardown(dispatched) == FALSE

\* The component is unmounted: the registered effect cleanup runs once, with the
\* handles it closed over, and the release it dispatches is not awaited.
Unmount ==
  /\ mounted
  /\ mounted' = MountedAfterTeardown(variant = "presigned" /\ CleanupIssues(effect[1], effect[2]))
  /\ LET fire == variant = "presigned" /\ (effect[1] # 0 \/ effect[2] # 0)
                 /\ CleanupIssues(effect[1], effect[2])
     IN /\ relCalls' = IF fire THEN AddCall(relCalls, effect) ELSE relCalls
        /\ pend' = IF fire THEN pend + 1 ELSE pend
  /\ ev' = "unmount"
  /\ Frozen
  /\ answer' = NoAnswer
  /\ UNCHANGED <<formVars, durVars, variant, ffmpegLoaded, loadPc, run, exp, uploaded, exportCalls,
                 nRuns, nActs>>

\* ------------------------------------------------------------------ export
\* The download button: rendered inside {transcriptTurns && ...} (the FFmpeg client
\* asks for a non-empty transcript); disabled={isProcessing || !geminiFileName}.
ExportEnabled ==
  /\ mounted /\ transcriptTurns.present /\ ~isProcessing /\ geminiFileName # 0
  /\ (variant = "ffmpeg" => Len(transcriptTurns.turns) > 0)

\* (as it would be with the transcript alone looked at)
NothingToExportNoHandle(t, g) == ~t.present

\* if (!transcriptTurns || !geminiFileName) { setError(...); return; }
NothingToExport(t, g) == ~t.present \/ g = 0

NothingMessage ==
  IF variant = "presigned" THEN "Nothing to download."
  ELSE "No transcript available to download or missing file identifier."

\* (as it would be with the turns sent last first)
TurnsSentReversed(t) == [i \in 1..Len(t.turns) |-> t.turns[Len(t.turns) + 1 - i]]

\* body: JSON.stringify({ ..., transcript_turns: transcriptTurns })
TurnsSent(t) == t.turns

\* title_data: { ..., FILE_DURATION: audioDuration || "N/A" }
FileDuration(d) == JsOr(d, "N/A")

\* handleDownloadDocx up to its await.
HandleDownloadDocx ==
  /\ mounted /\ nActs < MaxActs
  /\ nActs' = nActs + 1
  /\ IF NothingToExport(transcriptTurns, geminiFileName)
       THEN /\ error' = NothingMessage
            /\ UNCHANGED <<isProcessing, exp, exportCalls>>
            /\ NoCommit
            /\ ev' = "exportRefused"
       ELSE /\ exp.pc = "idle"
            /\ isProcessing' = TRUE
            /\ error' = IF variant = "ffmpeg" THEN NullStr ELSE error
            /\ SetStatus("Generating DOCX...")
            /\ exp' = [pc |-> "fetch", outcome |-> "none",
                       sent |-> TurnsSent(transcriptTurns), file |-> file,
                       saved |-> "", duration |-> FileDuration(audioDuration)]
            /\ exportCalls' = exportCalls + 1
            /\ ev' = "handleDownloadDocx"
  /\ answer' = NoAnswer
  /\ UNCHANGED <<formVars, durVars, variant, mounted, file, transcriptTurns, audioDuration, ffmpegLoaded,
                 loadPc, run, uploaded, nRuns>>

\* The user clicks the download button.
DownloadDocxClick == ExportEnabled /\ HandleDownloadDocx

\* handleDownloadDocx invoked while its button is not offered, the transcript or
\* the handle being null.
DownloadDocxCall ==
  /\ ~ExportEnabled
  /\ ~transcriptTurns.present \/ geminiFileName = 0
  /\ HandleDownloadDocx

\* What /generate_docx may answer.
ExportAnswers ==
  {[net |-> "reject", ok |-> FALSE, json |-> FALSE, detail |-> "", statusText |-> "",
    disp |-> NoHeader]}
  \cup {[net |-> "resolve", ok |-> FALSE, json |-> j, detail |-> d, statusText |-> s,
         disp |-> NoHeader] :
          j \in BOOLEAN, d \in Details, s \in StatusTexts}
  \cup {[net |-> "resolve", ok |-> TRUE, json |-> FALSE, detail |-> "", statusText |-> "OK",
         disp |-> h] : h \in Dispositions}

\* file.name as split(".") sees it: the parts between its dots.
FileName(f) ==
  IF f = "audio" THEN <<"hearing", "mp3">>
  ELSE IF f = "video" THEN <<"clip", "mp4">>
  ELSE IF f = "other" THEN <<"notes", "pdf">>
  ELSE <<>>

\* `${file?.name.split(".")[0] || "transcript"}_transcript.docx`
DefaultDownloadName(f) ==
  JsOr(IF f = NoFile THEN "" ELSE FileName(f)[1], "transcript") \o "_transcript.docx"

\* The download attribute of the link clicked for a delivered document.
\* presigned: always the default.  FFmpeg: the filename of a content-disposition
\* header that contains 'attachment' and matches the filename pattern with a
\* non-empty value.
DownloadName(f, h) ==
  IF variant = "ffmpeg" /\ h.present /\ h.attachment /\ h.filename # ""
    THEN h.filename
  ELSE DefaultDownloadName(f)

\* presigned: d = await resp.json().catch(() => ({})); throw new Error(d.detail || resp.statusText);
\*            catch: setError(msg || "Download failed")
\* FFmpeg:    errorData = await response.json().catch(() => ({detail: response.statusText}));
\*            throw new Error(`API Error (${status}): ${errorData.detail || 'Failed to generate DOCX'}`)
ExportMessage(a) ==
  IF a.net = "reject" THEN "Failed to fetch"
  ELSE IF variant = "presigned"
    THEN JsOr(JsOr(IF a.json THEN a.detail ELSE "", a.statusText), "Download failed")
    ELSE "API Error (500): "
           \o JsOr(IF a.json THEN a.detail ELSE a.statusText, "Failed to generate DOCX")

\* (as it would be if a delivered document also dropped the service handle, the
\* way cleanupFiles does)
HandleAfterExportDropped(g, ok) == IF ok THEN 0 ELSE g

\* handleDownloadDocx calls setIsProcessing, setError and setStatusMessage only: the
\* service handle after its fetch settled (ok: the document was delivered).
HandleAfterExport(g, ok) == g

\* /generate_docx settles.
ExportSettles(a) ==
  /\ exp.pc = "fetch"
  /\ exp' = [exp EXCEPT !.pc = "idle",
                        !.outcome = IF a.net = "resolve" /\ a.ok THEN "ok" ELSE "failed",
                        !.saved = IF a.net = "resolve" /\ a.ok
                                    THEN DownloadName(exp.file, a.disp) ELSE ""]
  /\ IF mounted
       THEN /\ isProcessing' = IsProcessingFinally(~(a.net = "resolve" /\ a.ok))
            /\ IF a.net = "resolve" /\ a.ok
                 THEN /\ Commit(HandleAfterExport(geminiFileName, TRUE), r2ObjectKey,
                                IF variant = "presigned" THEN "DOCX downloaded."
                                ELSE "DOCX downloaded successfully.", relCalls, pend)
                      /\ UNCHANGED error
                 ELSE /\ error' = ExportMessage(a)
                      /\ Commit(HandleAfterExport(geminiFileName, FALSE), r2ObjectKey,
                                "", relCalls, pend)
            /\ UNCHANGED <<file, transcriptTurns, audioDuration>>
       ELSE Frozen /\ UNCHANGED <<relCalls, pend>>
  /\ ev' = "exportSettled"
  /\ answer' = Heard(a)
  /\ UNCHANGED <<formVars, durVars, variant, mounted, ffmpegLoaded, loadPc, run, uploaded, exportCalls,
                 nRuns, nActs>>

\* ------------------------------------------------------------------ FFmpeg client
\* loadFFmpeg, started by the mount effect, settles: ffmpeg.load resolved or threw.
LoadFFmpegSettles(ok) ==
  /\ variant = "ffmpeg" /\ loadPc = "loading"
  /\ loadPc' = "done"
  /\ IF mounted
       THEN /\ ffmpegLoaded' = ok
            /\ error' = IF ok THEN error
                        ELSE "Failed to load FFmpeg component. Video conversion unavailable."
            /\ SetStatus(IF ok THEN "FFmpeg loaded." ELSE "")
            /\ UNCHANGED <<file, isProcessing, transcriptTurns, audioDuration>>
       ELSE Frozen /\ UNCHANGED <<ffmpegLoaded, relCalls, pend>>
  /\ ev' = "loadFFmpegSettled"
  /\ answer' = NoAnswer
  /\ UNCHANGED <<formVars, durVars, variant, mounted, run, exp, uploaded, exportCalls, nRuns, nActs>>

\* handleFileChange: nothing happens when the dialog yields no file.
HandleFileChangeF(f) ==
  /\ variant = "ffmpeg" /\ mounted
  /\ nActs < MaxActs
  /\ nActs' = nActs + 1
  /\ IF f # NoFile
       THEN /\ file' = f
            /\ transcriptTurns' = NoTranscript
            /\ error' = NullStr
            /\ audioDuration' = NullStr
            /\ Commit(0, r2ObjectKey, "", relCalls, pend)
            /\ run' = IF run.pc # "idle" THEN [run EXCEPT !.stale = TRUE] ELSE run
            /\ ev' = "handleFileChange"
       ELSE /\ UNCHANGED <<file, transcriptTurns, error, audioDuration, run>>
            /\ NoCommit
            /\ ev' = "noFileChosen"
  /\ answer' = NoAnswer
  /\ UNCHANGED <<formVars, durVars, variant, mounted, isProcessing, ffmpegLoaded, loadPc, exp,
                 uploaded, exportCalls, nRuns>>

\* catch (err) { setError(err.message || "An unexpected error occurred."); setStatusMessage('') }
\* finally { setIsProcessing(false) }
RunFailsF(r, step, msg) ==
  /\ run' = [r EXCEPT !.pc = "idle", !.outcome = "failed", !.failedAt = step]
  /\ IF mounted
       THEN /\ error' = JsOr(msg, "An unexpected error occurred.")
            /\ isProcessing' = IsProcessingFinally(TRUE)
            /\ audioDuration' = IF step = "start" THEN NullStr ELSE audioDuration
            /\ transcriptTurns' = IF step = "start" THEN NoTranscript ELSE transcriptTurns
            /\ Commit(IF step = "start" THEN 0 ELSE geminiFileName, r2ObjectKey, "",
                      relCalls, pend)
            /\ UNCHANGED file
       ELSE /\ Frozen
            /\ UNCHANGED <<relCalls, pend>>

\* (as it would be without the ffmpegLoaded check on a video)
FirstStepFUnguarded(f, loaded) ==
  IF f = "video" THEN "v_write"
  ELSE IF f = "audio" THEN (IF loaded THEN "a_write" ELSE "transcribe")
  ELSE "throw"

\* The engine operation the run awaits first, by MIME category and engine state
\* ("transcribe": no engine operation), or the error thrown before any await.
FirstStepF(f, loaded) ==
  IF f = "video" THEN (IF loaded THEN "v_write" ELSE "throw")
  ELSE IF f = "audio" THEN (IF loaded THEN "a_write" ELSE "transcribe")
  ELSE "throw"

StartMessageF(f) ==
  IF f = "video" THEN "FFmpeg not loaded. Cannot convert video."
  ELSE "Unsupported file type: other"

StatusAtF(pc) ==
  IF pc = "v_write" THEN "Converting video to MP3 audio..."
  ELSE IF pc = "a_write" THEN "Processing audio file..."
  ELSE IF pc = "v_read" THEN "Reading converted audio..."
  ELSE IF pc = "transcribe" THEN "Uploading audio and requesting transcript..."
  ELSE statusMessage

\* handleSubmit up to its first await (or to its end, when it throws before one).
HandleSubmitF ==
  /\ variant = "ffmpeg" /\ SubmitEnabled
  /\ nActs < MaxActs
  /\ nActs' = nActs + 1
  /\ nRuns' = nRuns + 1
  /\ LET first == FirstStepF(file, ffmpegLoaded)
         r == [pc |-> first, id |-> nRuns + 1, file |-> file, key |-> 0,
               stale |-> FALSE, reqs |-> IF first = "throw" THEN {} ELSE {first},
               wrote |-> FALSE, outcome |-> "none", failedAt |-> "none",
               badAt |-> "none", recv |-> <<>>, probed |-> FALSE]
     IN IF first = "throw"
          THEN RunFailsF(r, "start", StartMessageF(file))
          ELSE /\ run' = r
               /\ isProcessing' = TRUE
               /\ error' = NullStr
               /\ transcriptTurns' = NoTranscript
               /\ audioDuration' = NullStr
               /\ Commit(0, r2ObjectKey,
                         IF first = "v_write" THEN "Converting video to MP3 audio..."
                         ELSE IF first = "a_write" THEN "Processing audio file..."
                         ELSE "Uploading audio and requesting transcript...",
                         relCalls, pend)
               /\ UNCHANGED file
  /\ ev' = "handleSubmit"
  /\ answer' = NoAnswer
  /\ UNCHANGED <<formVars, durVars, variant, mounted, ffmpegLoaded, loadPc, exp, uploaded, exportCalls>>

EnginePcs == {"v_write", "v_exec", "v_read", "v_write2", "v_probe", "a_write", "a_probe"}

\* The step that follows a resolved engine operation.
NextStepF(pc) ==
  IF pc = "v_write" THEN "v_exec"
  ELSE IF pc = "v_exec" THEN "v_read"
  ELSE IF pc = "v_read" THEN "v_write2"
  ELSE IF pc = "v_write2" THEN "v_probe"
  ELSE IF pc = "a_write" THEN "a_probe"
  ELSE "transcribe"

\* Only the duration probes (ffmpeg.exec with -show_entries) sit in a try of their own.
EngineThrowAborts(pc) == pc \notin {"v_probe", "a_probe"}

\* An engine operation (writeFile, exec, readFile) settles: it resolved or threw.
EngineSettles(ok) ==
  /\ variant = "ffmpeg" /\ run.pc \in EnginePcs
  /\ IF ~ok /\ EngineThrowAborts(run.pc)
       THEN RunFailsF(run, run.pc, "engine error")
       ELSE LET nxt == IF ok THEN NextStepF(run.pc) ELSE "transcribe"
            IN /\ run' = [run EXCEPT !.pc = nxt, !.reqs = @ \cup {nxt},
                                     !.probed = ok /\ run.pc \in {"v_probe", "a_probe"}]
               /\ IF mounted
                    THEN /\ audioDuration' = IF nxt = "transcribe" THEN NullStr
                                             ELSE audioDuration
                         /\ SetStatus(IF nxt \in {"v_read", "transcribe"}
                                        THEN StatusAtF(nxt)
                                      ELSE statusMessage)
                         /\ UNCHANGED <<file, isProcessing, error, transcriptTurns>>
                    ELSE Frozen /\ UNCHANGED <<relCalls, pend>>
  /\ ev' = "engineSettled"
  /\ answer' = NoAnswer
  /\ UNCHANGED <<formVars, durVars, variant, mounted, ffmpegLoaded, loadPc, exp, uploaded, exportCalls,
                 nRuns, nActs>>

\* if (!response.ok) { errorData = await response.json().catch(() => ({detail: statusText}));
\*   throw new Error(`API Error (${status}): ${errorData.detail || 'Unknown error'}`) }
\* const result = await response.json();
TranscribeFailsF(a) == a.net = "reject" \/ ~a.ok \/ ~a.json
TranscribeMessageF(a) ==
  IF a.net = "reject" THEN "Failed to fetch"
  ELSE IF ~a.ok
    THEN "API Error (500): " \o JsOr(IF a.json THEN a.detail ELSE a.statusText, "Unknown error")
  ELSE "Unexpected token < in JSON"

\* /transcribe settles.
TranscribeSettlesF(a) ==
  /\ variant = "ffmpeg" /\ run.pc = "transcribe"
  /\ IF TranscribeFailsF(a)
       THEN RunFailsF(Saw(RequestFailed(a), "transcribe"), "transcribe",
                      TranscribeMessageF(a))
       ELSE /\ run' = [Saw(RequestFailed(a), "transcribe") EXCEPT
                        !.pc = "idle", !.wrote = TRUE, !.recv = a.turns,
                        !.outcome = "ok"]
            /\ IF mounted
                 THEN /\ transcriptTurns' = [present |-> TRUE, turns |-> a.turns]
                      /\ isProcessing' = IsProcessingFinally(FALSE)
                      /\ Commit(run.id, r2ObjectKey, "Transcription complete!", relCalls, pend)
                      /\ UNCHANGED <<file, error, audioDuration>>
                 ELSE Frozen /\ UNCHANGED <<relCalls, pend>>
  /\ ev' = "transcribeSettled"
  /\ answer' = Heard(a)
  /\ UNCHANGED <<formVars, durVars, variant, mounted, ffmpegLoaded, loadPc, exp, uploaded, exportCalls,
                 nRuns, nActs>>

NextF ==
  \/ \E ok \in BOOLEAN : LoadFFmpegSettles(ok)
  \/ \E f \in FileChoices \cup {NoFile} : HandleFileChangeF(f)
  \/ HandleSubmitF
  \/ \E ok \in BOOLEAN : EngineSettles(ok)
  \/ \E a \in TranscribeAnswers : TranscribeSettlesF(a)

\* ------------------------------------------------------------------ the speaker form
\* onChange={(e) => setSpecifySpeakers(e.target.checked)}
ToggleSpecifySpeakers ==
  /\ mounted
  /\ specifySpeakers' = ~specifySpeakers
  /\ ev' = "setSpecifySpeakers"
  /\ UNCHANGED <<sessionVars, durVars, numSpeakers, speakerNames, speakerNamesSent>>

\* parseInt of the count field's value ("" gives NaN, written EmptiedCount).
\* presigned: Math.max(1, parseInt(e.target.value || "1", 10))
\* FFmpeg:    parseInt(event.target.value, 10) || 1
ParsedCount(v) ==
  IF variant = "presigned"
    THEN (IF v = EmptiedCount THEN 1 ELSE IF v > 1 THEN v ELSE 1)
    ELSE (IF v = EmptiedCount \/ v = 0 THEN 1 ELSE v)

\* Array.prototype.slice(0, n): a negative n counts from the end.
Slice0(s, n) ==
  LET to == IF n < 0 THEN (IF Len(s) + n > 0 THEN Len(s) + n ELSE 0)
            ELSE (IF n < Len(s) THEN n ELSE Len(s))
  IN SubSeq(s, 1, to)

\* if (n > out.length) return [...out, ...Array(n - out.length).fill("")];
\* return out.slice(0, n);
Resized(names, n) ==
  IF n > Len(names) THEN names \o [i \in 1..(n - Len(names)) |-> EmptyName]
  ELSE Slice0(names, n)

\* changeNumSpeakers / handleNumSpeakersChange (the field is rendered when
\* specifySpeakers is set).
ChangeNumSpeakers(v) ==
  /\ mounted /\ specifySpeakers
  /\ numSpeakers' = ParsedCount(v)
  /\ speakerNames' = Resized(speakerNames, ParsedCount(v))
  /\ ev' = "changeNumSpeakers"
  /\ UNCHANGED <<sessionVars, durVars, specifySpeakers, speakerNamesSent>>

\* String.prototype.toUpperCase on the characters in use.
UpperChar(c) == IF c = "a" THEN "A" ELSE IF c = "n" THEN "N" ELSE c
ToUpperCase(s) == [i \in 1..Len(s) |-> UpperChar(s[i])]

\* changeSpeakerName / handleSpeakerNameChange: field i (1-based here) of the
\* numSpeakers fields rendered.
ChangeSpeakerName(i, v) ==
  /\ mounted /\ specifySpeakers
  /\ i \in 1..numSpeakers /\ i <= Len(speakerNames)
  /\ speakerNames' = [speakerNames EXCEPT ![i] = ToUpperCase(v)]
  /\ ev' = "changeSpeakerName"
  /\ UNCHANGED <<sessionVars, durVars, specifySpeakers, numSpeakers, speakerNamesSent>>

\* String.prototype.trim
RECURSIVE TrimStart(_)
TrimStart(s) ==
  IF s # <<>> /\ Head(s) \in Whitespace THEN TrimStart(Tail(s)) ELSE s
RECURSIVE TrimEnd(_)
TrimEnd(s) ==
  IF s # <<>> /\ s[Len(s)] \in Whitespace THEN TrimEnd(SubSeq(s, 1, Len(s) - 1)) ELSE s
Trim(s) == TrimEnd(TrimStart(s))

\* (as it would be with the entries tested without trim)
KeepsNameUntrimmed(s) == s # EmptyName

\* The filter's test -- presigned: (s) => s.trim();
\* FFmpeg: name => name && name.trim() !== ''
KeepsName(s) ==
  IF variant = "presigned" THEN Trim(s) # EmptyName
  ELSE s # EmptyName /\ Trim(s) # EmptyName

\* speaker_names: specifySpeakers ? speakerNames.filter(...) : null
SpeakerNamesBody(specify, names) ==
  IF specify THEN [kind |-> "list", names |-> SelectSeq(names, KeepsName)]
  ELSE [kind |-> "null", names |-> <<>>]

\* handleSubmit builds the /transcribe request body from the form it closed over.
BuildTranscribeBody ==
  /\ mounted
  /\ speakerNamesSent' = SpeakerNamesBody(specifySpeakers, speakerNames)
  /\ ev' = "transcribeBody"
  /\ UNCHANGED <<sessionVars, durVars, specifySpeakers, numSpeakers, speakerNames>>

NextForm ==
  \/ ToggleSpecifySpeakers
  \/ \E v \in CountInputs : ChangeNumSpeakers(v)
  \/ \E i \in 1..MaxCount, v \in TypedNames : ChangeSpeakerName(i, v)
  \/ BuildTranscribeBody

\* The form alone: the session's cells stay as constructed.
SpecForm == Init /\ [][NextForm]_vars

\* ------------------------------------------------------------------ the duration renderers
\* Whole seconds below MaxHours hours: every hour, with the first, second and last
\* minute and second of it.
SampleSeconds ==
  {h * 3600 + m * 60 + x : h \in 0..(MaxHours - 1), m \in {0, 1, 59}, x \in {0, 1, 59}}

InitDuration == InitSession /\ seconds \in SampleSeconds /\ rendered = NoRendering

\* Both clients' renderers are applied to the duration.
RenderDuration ==
  /\ rendered = NoRendering
  /\ rendered' = [hhmmss |-> hhmmss(seconds), formatDuration |-> formatDuration(seconds)]
  /\ ev' = "rendered"
  /\ UNCHANGED <<sessionVars, formVars, seconds>>

NextDuration == RenderDuration

SpecDuration == InitDuration /\ [][NextDuration]_vars

\* ------------------------------------------------------------------ specification
NextP ==
  \/ \E f \in FilesP \cup {NoFile} : HandleFileChangeP(f)
  \/ HandleSubmitP
  \/ \E o \in FetchOutcomes : PresignSettles(o)
  \/ \E o \in FetchOutcomes : PutSettles(o)
  \/ \E a \in TranscribeAnswers : TranscribeSettlesP(a)
  \/ \E d \in Durations \cup {0} : DurationSettlesP(d)
  \/ CleanupFilesClick
  \/ \E o \in FetchOutcomes : ReleaseSettles(o)

Next ==
  \/ NextP
  \/ NextF
  \/ DownloadDocxClick
  \/ \E a \in ExportAnswers : ExportSettles(a)
  \/ Unmount

\* The session as the rendered page drives it.
Spec == Init /\ [][Next]_vars

\* The session with handleDownloadDocx also invoked while its button is not offered
\* and there is nothing to export.
NextDirect ==
  \/ Next
  \/ DownloadDocxCall

SpecDirect == Init /\ [][NextDirect]_vars

\* The operations handleSubmit and handleDownloadDocx await: the presign, upload,
\* /transcribe and /generate_docx fetches, getDuration's audio element and the
\* engine's steps.
AwaitedSettles ==
  \/ \E o \in FetchOutcomes : PresignSettles(o)
  \/ \E o \in FetchOutcomes : PutSettles(o)
  \/ \E a \in TranscribeAnswers : TranscribeSettlesP(a)
  \/ \E d \in Durations \cup {0} : DurationSettlesP(d)
  \/ \E ok \in BOOLEAN : EngineSettles(ok)
  \/ \E a \in TranscribeAnswers : TranscribeSettlesF(a)
  \/ \E a \in ExportAnswers : ExportSettles(a)

\* The session's steps within MaxLiveActs user operations.
NextLive == Next /\ nActs' <= MaxLiveActs

\* The session where an awaited operation that is outstanding settles in the end:
\* the browser resolves or rejects every fetch and fires onloadedmetadata or
\* onerror on the audio element. Nothing is assumed of what the user does.
SpecLive == Init /\ [][NextLive]_vars /\ WF_vars(AwaitedSettles)


\* cleanupFiles on its own, over every subset of handles: the session holds a
\* transcript and the handles a /transcribe response and a presign response gave
\* it, either of which may lack its field.
InitRelease ==
  /\ variant = "presigned"
  /\ mounted = TRUE
  /\ file = "audio"
  /\ isProcessing = FALSE
  /\ statusMessage = "Transcription complete!"
  /\ error = NullStr
  /\ transcriptTurns \in {[present |-> TRUE, turns |-> t] : t \in TurnSeqs}
  /\ geminiFileName \in {0, 1}
  /\ r2ObjectKey \in {0, 1}
  /\ audioDuration \in {NullStr, hhmmss(150)}
  /\ ffmpegLoaded = FALSE
  /\ loadPc = "none"
  /\ effect = <<geminiFileName, r2ObjectKey>>
  /\ run = [IdleRun EXCEPT !.id = 1, !.file = "audio", !.key = 1, !.wrote = TRUE,
                           !.outcome = "ok", !.recv = transcriptTurns.turns,
                           !.reqs = {"presign", "put", "transcribe", "duration"}]
  /\ exp = IdleExp
  /\ pend = 0
  /\ relCalls = <<>>
  /\ uploaded = {1}
  /\ exportCalls = 0
  /\ nRuns = 1
  /\ nActs = 0
  /\ ev = "init"
  /\ specifySpeakers = FALSE
  /\ numSpeakers = 1
  /\ speakerNames = <<EmptyName>>
  /\ speakerNamesSent = NoBody
  /\ answer = NoAnswer
  /\ seconds = 0
  /\ rendered = NoRendering

NextRelease ==
  \/ CleanupFilesClick
  \/ CleanupFilesCall
  \/ \E o \in FetchOutcomes : ReleaseSettles(o)
  \/ Unmount

SpecRelease == InitRelease /\ [][NextRelease]_vars

\* ------------------------------------------------------------------ properties
Handles == <<geminiFileName, r2ObjectKey>>

\* The steps by which a run ends.
RunEndEvents == {"handleSubmit", "presignSettled", "putSettled", "transcribeSettled",
                 "durationSettled", "engineSettled"}

\* The place of a step in a run: engine operations, presign, upload, transcription,
\* duration probe.
StepRank(st) ==
  IF st = "presign" THEN 1
  ELSE IF st = "put" THEN 2
  ELSE IF st = "transcribe" THEN 3
  ELSE IF st = "duration" THEN 4
  ELSE 0

\* C1: once handleFileChange has superseded an in-flight handleSubmit run, no later
\* step of that run writes transcriptTurns, geminiFileName, r2ObjectKey,
\* audioDuration or error.
C1_LateRunDiscarded ==
  [][(variant = "presigned" /\ mounted /\ run.pc # "idle" /\ run.stale /\ run' # run)
       => UNCHANGED <<transcriptTurns, geminiFileName, r2ObjectKey, audioDuration, error>>]_vars

\* C2: once the component is unmounted and every pending operation has settled, a
\* release call naming each object whose PUT succeeded has been issued.
C2_UploadsReleased ==
  (variant = "presigned" /\ ~mounted /\ run.pc = "idle" /\ exp.pc = "idle" /\ pend = 0)
    => \A key \in uploaded : \E c \in DOMAIN relCalls : c[2] \in {key, -key}

\* C3: unmounting dispatches exactly one release call, naming the handles held, when
\* a handle is held, and none when both are null.
C3_TeardownReleasesOnce ==
  [][(variant = "presigned" /\ mounted /\ ~mounted')
       => IF geminiFileName # 0 \/ r2ObjectKey # 0
            THEN relCalls' = AddCall(relCalls, Handles) /\ pend' = pend + 1
            ELSE relCalls' = relCalls /\ pend' = pend]_vars

\* C3's case: the component was unmounted holding handles and one release call
\* naming them is in flight.
C3_Witness ==
  /\ variant = "presigned" /\ ev = "unmount"
  /\ geminiFileName # 0 /\ r2ObjectKey # 0
  /\ Count(relCalls, Handles) = 1 /\ pend = 1

\* C4: a cleanupFiles call made right after an earlier one has completed issues no
\* network request and changes no session state.
C4_SecondReleaseNoop ==
  [][(variant = "presigned" /\ ev \in {"releaseResolved", "releaseRejected"}
      /\ pend = 0 /\ ev' = "cleanupFiles")
       => /\ relCalls' = relCalls /\ pend' = pend
          /\ UNCHANGED <<file, isProcessing, statusMessage, error, transcriptTurns,
                         geminiFileName, r2ObjectKey, audioDuration>>]_vars

\* C5: when a release attempt has finished, resolved or rejected, both handles are
\* null.
C5_HandlesClearedAfterRelease ==
  (variant = "presigned" /\ mounted /\ ev \in {"releaseResolved", "releaseRejected"})
    => (geminiFileName = 0 /\ r2ObjectKey = 0)

\* C6: handleFileChange nulls both handles and no release call is issued as a
\* consequence of it.
C6_ReplaceIssuesNoRelease ==
  [][(ev' = "handleFileChange" /\ nActs' = nActs + 1)
       => (geminiFileName' = 0 /\ r2ObjectKey' = 0 /\ relCalls' = relCalls)]_vars

\* C7: right after handleFileChange the transcript, both handles, the duration, the
\* error and the status text are cleared and the session is not processing.
C7_ReplaceReturnsToIdle ==
  ev = "handleFileChange"
    => /\ ~transcriptTurns.present
       /\ geminiFileName = 0 /\ r2ObjectKey = 0
       /\ audioDuration = NullStr
       /\ error = NullStr
       /\ statusMessage = ""
       /\ ~isProcessing

\* C8: when the presign, upload or /transcribe request of a run has failed, no
\* request of a later step of that run is issued, the run has written neither the
\* transcript nor the handles, it has ended as failed, and at its end (component
\* mounted) isProcessing is false and an error is recorded.
C8_FailureAbortsRun ==
  run.badAt # "none"
    => /\ \A r \in run.reqs : StepRank(r) <= StepRank(run.badAt)
       /\ ~run.wrote
       /\ run.pc = "idle" /\ run.outcome = "failed" /\ run.failedAt = run.badAt
       /\ (mounted /\ ev \in RunEndEvents) => (~isProcessing /\ error # NullStr)

\* C8's case: the upload PUT has just failed.
C8_Witness ==
  /\ variant = "presigned" /\ mounted /\ ev = "putSettled"
  /\ run.badAt = "put" /\ run.reqs = {"presign", "put"}
  /\ error = "upload 500" /\ ~isProcessing

\* C9: when a run has just ended through its failure path, the recorded error is
\* neither null nor the empty string.
C9_FailureMessageNonEmpty ==
  (mounted /\ ev \in RunEndEvents /\ run.pc = "idle" /\ run.outcome = "failed")
    => error \notin {NullStr, ""}

\* C10: handleDownloadDocx invoked with the transcript null or geminiFileName null
\* records the nothing-to-export error and issues no network call.
C10_ExportRefusedLocally ==
  [][(ev' \in {"exportRefused", "handleDownloadDocx"} /\ nActs' = nActs + 1
      /\ (~transcriptTurns.present \/ geminiFileName = 0))
       => (error' = NothingMessage /\ exportCalls' = exportCalls /\ exp' = exp
           /\ isProcessing' = isProcessing)]_vars

\* C10's case: export was refused after cleanup had cleared the handles, the
\* transcript still being held.
C10_Witness ==
  /\ ev = "exportRefused" /\ transcriptTurns.present /\ geminiFileName = 0
  /\ error = NothingMessage /\ exportCalls = 0

\* The steps of handleDownloadDocx: refused, request issued, request settled.
ExportEvents == {"exportRefused", "handleDownloadDocx", "exportSettled"}

\* C11: no step of handleDownloadDocx, whichever way the invocation ends and however
\* many invocations there are, changes transcriptTurns, geminiFileName, r2ObjectKey,
\* audioDuration or the selected file.
C11_ExportKeepsPrimaryState ==
  [][ev' \in ExportEvents
       => UNCHANGED <<transcriptTurns, geminiFileName, r2ObjectKey, audioDuration, file>>]_vars

\* C11's case: a second export has delivered its document after the first one
\* failed, the transcript and the handle still being held.
C11_Witness ==
  /\ mounted /\ ev = "exportSettled" /\ exportCalls = 2 /\ exp.outcome = "ok"
  /\ error # NullStr
  /\ transcriptTurns.present /\ geminiFileName # 0 /\ file # NoFile

\* C12: the transcript held after a successful /transcribe response is the sequence
\* of turns the response carried (same length, same order), and the transcript_turns
\* of an export request is that sequence.
C12_TranscriptAsReceived ==
  /\ (mounted /\ run.wrote /\ transcriptTurns.present) => transcriptTurns.turns = run.recv
  /\ (exp.pc = "fetch" /\ run.wrote) => exp.sent = run.recv

\* C12's case: an export request carrying the two turns received is in flight.
C12_Witness ==
  /\ exp.pc = "fetch" /\ run.wrote /\ run.recv = <<1, 2>>
  /\ transcriptTurns.turns = <<1, 2>> /\ exp.sent = <<1, 2>>

\* An identifier made of whitespace only (or of nothing).
Blank(s) == \A i \in 1..Len(s) : s[i] \in Whitespace

\* The entries of a list that are not blank, in the order of the list.
RECURSIVE NonBlank(_)
NonBlank(names) ==
  IF names = <<>> THEN <<>>
  ELSE (IF Blank(Head(names)) THEN <<>> ELSE <<Head(names)>>) \o NonBlank(Tail(names))

\* C13: the speaker_names of a request body is null when specifySpeakers is false and
\* otherwise the entered list without its blank entries, the others in their
\* order; it never holds a blank or whitespace-only entry.
C13_SpeakerNamesSent ==
  [][ev' = "transcribeBody"
       => /\ (~specifySpeakers => speakerNamesSent'.kind = "null")
          /\ (specifySpeakers => /\ speakerNamesSent'.kind = "list"
                                 /\ speakerNamesSent'.names = NonBlank(speakerNames))
          /\ \A i \in 1..Len(speakerNamesSent'.names) :
                ~Blank(speakerNamesSent'.names[i])]_vars

\* C13's case: a body was built from a list holding a whitespace-only entry between
\* two identifiers, and carries the two identifiers in their order.
C13_Witness ==
  /\ ev = "transcribeBody" /\ specifySpeakers
  /\ speakerNames = << <<" ", "B", "\t">>, <<" ">>, <<"A", "N">> >>
  /\ speakerNamesSent = [kind |-> "list", names |-> << <<" ", "B", "\t">>, <<"A", "N">> >>]

\* C14: when the presign, the upload and /transcribe of a run succeeded and its
\* duration probe failed, the run ends with the transcript and both handles held,
\* error null, the success status shown, the duration null and isProcessing false.
C14_ProbeFailureSilent ==
  (variant = "presigned" /\ mounted /\ ev = "durationSettled" /\ ~run.stale
   /\ run.wrote /\ run.failedAt = "duration")
    => /\ transcriptTurns.present /\ geminiFileName # 0 /\ r2ObjectKey # 0
       /\ error = NullStr
       /\ statusMessage = "Transcription complete!"
       /\ audioDuration = NullStr
       /\ ~isProcessing

\* C15: in the FFmpeg client, handleSubmit on a video file while ffmpegLoaded is
\* false ends within the call: the run has failed with an error recorded, it has
\* invoked no engine operation and issued no network call, and isProcessing is false.
C15_VideoNeedsEngine ==
  [][(variant = "ffmpeg" /\ ev' = "handleSubmit" /\ nRuns' = nRuns + 1
      /\ file = "video" /\ ~ffmpegLoaded)
       => /\ run'.pc = "idle" /\ run'.outcome = "failed"
          /\ run'.reqs = {}
          /\ error' \notin {NullStr, ""}
          /\ ~isProcessing' /\ ~transcriptTurns'.present /\ geminiFileName' = 0]_vars

\* C15's case: a video was submitted after the engine had failed to load.
C15_Witness ==
  /\ variant = "ffmpeg" /\ ev = "handleSubmit" /\ file = "video"
  /\ loadPc = "done" /\ ~ffmpegLoaded
  /\ run.outcome = "failed" /\ run.reqs = {}
  /\ error = "FFmpeg not loaded. Cannot convert video."

\* C16: handleSubmit on a file that is neither audio nor video ends within the
\* call: the run has failed with an error recorded, no engine operation was invoked
\* and no network call issued.
C16_UnsupportedTypeRefused ==
  [][(ev' = "handleSubmit" /\ nRuns' = nRuns + 1 /\ file = "other")
       => /\ run'.pc = "idle" /\ run'.outcome = "failed"
          /\ run'.reqs = {}
          /\ error' \notin {NullStr, ""}
          /\ ~isProcessing']_vars

\* C17: right after /transcribe or /generate_docx has answered with a non-success
\* status, the recorded error is made of the detail of the response body when the
\* body is JSON carrying one, and otherwise of the response's status text (when
\* there is one); the FFmpeg client's "API Error (status): " prefix is let through.
C17_ErrorFromResponse ==
  LET want == IF answer.json /\ answer.detail # "" THEN answer.detail
              ELSE answer.statusText
  IN (mounted /\ ev \in {"transcribeSettled", "exportSettled"}
      /\ answer.net = "resolve" /\ ~answer.ok /\ want # "")
       => error \in {want, "API Error (500): " \o want}

\* A display name without its extension (its last part).
RECURSIVE Dotted(_)
Dotted(parts) ==
  IF Len(parts) = 0 THEN ""
  ELSE IF Len(parts) = 1 THEN parts[1]
  ELSE parts[1] \o "." \o Dotted(Tail(parts))
Stem(name) == IF Len(name) > 1 THEN Dotted(SubSeq(name, 1, Len(name) - 1)) ELSE Dotted(name)

\* C18: the download name of a delivered document is the filename of the response's
\* content-disposition header when the header names one, and otherwise the stem of
\* the file's name followed by "_transcript.docx".
C18_DownloadName ==
  (ev = "exportSettled" /\ exp.outcome = "ok")
    => exp.saved = IF answer.disp.filename # "" THEN answer.disp.filename
                   ELSE Stem(FileName(exp.file)) \o "_transcript.docx"

\* C19: in the presigned-upload client the PUT of a run is issued only when its
\* presign request was issued and did not fail, its /transcribe request only when
\* its PUT was issued, did not fail and stored the object, and a /generate_docx
\* request only in a state holding a transcript and the transcription handle.
C19_StepsInOrder ==
  /\ [](variant = "presigned"
          => /\ ("put" \in run.reqs
                    => "presign" \in run.reqs /\ run.badAt # "presign" /\ run.key # 0)
             /\ ("transcribe" \in run.reqs
                    => /\ "put" \in run.reqs /\ run.badAt \notin {"presign", "put"}
                       /\ run.key \in uploaded)
             /\ ("duration" \in run.reqs => "transcribe" \in run.reqs))
  /\ [][(variant = "presigned" /\ exportCalls' # exportCalls)
          => (transcriptTurns.present /\ geminiFileName # 0 /\ nRuns > 0)]_vars

\* C19's case: a run went through presign, PUT and /transcribe, and an export
\* request of its transcript is in flight.
C19_Witness ==
  /\ variant = "presigned" /\ run.reqs = {"presign", "put", "transcribe", "duration"}
  /\ run.outcome = "ok" /\ run.key \in uploaded
  /\ exp.pc = "fetch" /\ exportCalls = 1

\* The requests of the session that are outstanding: the presign, PUT or /transcribe
\* request of the run, the /generate_docx request, the release requests.
InFlight ==
  (IF run.pc \in {"presign", "put", "transcribe"} THEN 1 ELSE 0)
  + (IF exp.pc = "fetch" THEN 1 ELSE 0)
  + pend

\* C20: in the presigned-upload client at most one of the presign, upload,
\* /transcribe, /generate_docx and release requests is outstanding at any moment.
C20_OneRequestInFlight == variant = "presigned" => InFlight <= 1

\* C21: while a run that has not written its own results is in flight, and after
\* such a run has ended as failed, the session holds no transcript, no handle and
\* no duration: those of an earlier run are gone once the new run has started.
C21_ResubmitStartsFromScratch ==
  (mounted /\ run.id > 0 /\ ~run.wrote /\ (run.pc # "idle" \/ run.outcome = "failed"))
    => /\ ~transcriptTurns.present
       /\ geminiFileName = 0 /\ r2ObjectKey = 0
       /\ audioDuration = NullStr

\* The release calls issued so far that name the handle value g (k) as their
\* transcription handle (storage key).
RECURSIVE SumCalls(_, _)
SumCalls(calls, cs) ==
  IF cs = {} THEN 0
  ELSE LET c == CHOOSE x \in cs : TRUE IN calls[c] + SumCalls(calls, cs \ {c})
CallsNamingHandle(g) == SumCalls(relCalls, {c \in DOMAIN relCalls : c[1] = g})
CallsNamingKey(k) == SumCalls(relCalls, {c \in DOMAIN relCalls : c[2] = k})

\* C22: counting the cleanupFiles calls of the user together with those of the
\* effect cleanup, no handle value is named by more than one release call.
C22_OneReleasePerHandle ==
  variant = "presigned"
    => \A c \in DOMAIN relCalls :
         /\ (c[1] # 0 => CallsNamingHandle(c[1]) <= 1)
         /\ (c[2] # 0 => CallsNamingKey(c[2]) <= 1)

\* C23: one cleanupFiles invocation issues exactly one release call, naming the
\* handles that are set (both, the transcription handle alone, the storage key
\* alone), when at least one is set; with neither set it issues none and leaves
\* every cell of the session as it was.
C23_ReleaseOverHandleSubsets ==
  [][(ev' = "cleanupFiles" /\ nActs' = nActs + 1)
       => IF geminiFileName # 0 \/ r2ObjectKey # 0
            THEN relCalls' = AddCall(relCalls, Handles) /\ pend' = pend + 1
            ELSE /\ relCalls' = relCalls /\ pend' = pend
                 /\ UNCHANGED <<file, isProcessing, statusMessage, error, transcriptTurns,
                                geminiFileName, r2ObjectKey, audioDuration>>]_vars

\* C23's case: cleanupFiles was invoked with the storage key alone set and one
\* call naming the key alone is in flight.
C23_Witness ==
  /\ ev = "cleanupFiles" /\ geminiFileName = 0 /\ r2ObjectKey = 1
  /\ relCalls = (<<0, 1>> :> 1) /\ pend = 1

\* The steps of cleanupFiles: invoked by the user, its fetch resolved or rejected.
CleanupEvents == {"cleanupFiles", "releaseResolved", "releaseRejected"}

\* C24: no step of cleanupFiles, whether its release call succeeds or fails, changes
\* error, transcriptTurns, audioDuration, the selected file or isProcessing, and
\* none ends a run as failed.
C24_CleanupNeverFatal ==
  [][ev' \in CleanupEvents
       => /\ UNCHANGED <<error, transcriptTurns, audioDuration, file, isProcessing>>
          /\ run'.outcome = run.outcome]_vars

\* C24's case: the release call of an explicit cleanup was rejected, and the session
\* still holds its transcript with no error recorded.
C24_Witness ==
  /\ mounted /\ ev = "releaseRejected"
  /\ statusMessage = "Cleanup attempted (see server logs for details)."
  /\ error = NullStr /\ transcriptTurns.present /\ ~isProcessing

\* C25: the unmount step ends with the component unmounted and the release it
\* dispatched (when a handle is held) still outstanding, and whatever that release
\* does afterwards, resolve or reject, the component stays unmounted with its
\* cells as they were.
C25_TeardownDoesNotWait ==
  [][/\ (variant = "presigned" /\ ev' = "unmount")
          => /\ ~mounted'
             /\ ((geminiFileName # 0 \/ r2ObjectKey # 0) => pend' = pend + 1)
     /\ (~mounted /\ ev' \in {"releaseResolved", "releaseRejected"})
          => /\ ~mounted'
             /\ UNCHANGED <<file, isProcessing, statusMessage, error, transcriptTurns,
                            geminiFileName, r2ObjectKey, audioDuration>>]_vars

\* C25's case: the release dispatched by the teardown was rejected after the
\* component had gone.
C25_Witness ==
  /\ variant = "presigned" /\ ~mounted /\ ev = "releaseRejected" /\ pend = 0
  /\ geminiFileName # 0 /\ Count(relCalls, Handles) = 1

\* C26: after any sequence of count changes and identifier edits, the identifier
\* list is as long as the declared speaker count, and the count is at least 1.
C26_CountMatchesNames == Len(speakerNames) = numSpeakers /\ numSpeakers >= 1

\* C27: right after a successful /transcribe response geminiFileName is the
\* handle of the response and r2ObjectKey the key the response echoed, or else the
\* key of the presign step; and when a run has ended successfully r2ObjectKey is
\* not null.
C27_HandlesCaptured ==
  (variant = "presigned" /\ mounted)
    => /\ (ev = "transcribeSettled" /\ run.wrote)
            => /\ geminiFileName = run.id
               /\ r2ObjectKey = (IF answer.echo # 0 THEN -run.key ELSE run.key)
               /\ r2ObjectKey # 0
       /\ (ev = "durationSettled" /\ run.outcome = "ok" /\ ~run.stale)
            => r2ObjectKey # 0

\* C28: when a run whose duration probe succeeded (with 150 seconds) has ended
\* successfully, audioDuration is "00:02:30", and the FILE_DURATION of an export
\* request made then is that string.
C28_DurationHeld ==
  /\ (mounted /\ ev \in RunEndEvents /\ run.pc = "idle" /\ run.outcome = "ok"
      /\ run.probed /\ ~run.stale)
       => audioDuration = "00:02:30"
  /\ (exp.pc = "fetch" /\ run.outcome = "ok" /\ run.probed /\ ~run.stale)
       => exp.duration = "00:02:30"

\* HH:MM:SS of s whole seconds: hours, minutes of the hour, seconds of the minute,
\* each written with two digits at least.
HoursMinutesSeconds(s) ==
  LET h == s \div 3600
      m == (s \div 60) % 60
      x == s % 60
      two(n) == IF n < 10 THEN "0" \o NatStr(n) ELSE NatStr(n)
  IN two(h) \o ":" \o two(m) \o ":" \o two(x)

\* C29: for every whole number of seconds below 100 hours, hhmmss and formatDuration
\* both return the HH:MM:SS of it (hours = floor(s/3600), minutes = floor(s/60) mod
\* 60, seconds = s mod 60), hence the same string.
C29_RenderingsCorrect ==
  rendered # NoRendering
    => /\ rendered.hhmmss = HoursMinutesSeconds(seconds)
       /\ rendered.formatDuration = HoursMinutesSeconds(seconds)
       /\ rendered.hhmmss = rendered.formatDuration

\* A submit run or an export is in flight.
Working == run.pc # "idle" \/ exp.pc = "fetch"

\* C30: on the mounted page isProcessing is true exactly while a submit run or an
\* export is in flight, and, every awaited operation settling in the end, a session
\* that is processing comes back to not processing (or the page is left).
C30_ProcessingWhileInFlight ==
  /\ [](mounted => (isProcessing <=> Working))
  /\ (mounted /\ isProcessing) ~> (~isProcessing \/ ~mounted)

\* A successful run and a failed export have both ended and isProcessing is false.
C30_Witness ==
  /\ mounted /\ ~isProcessing /\ ~Working
  /\ run.outcome = "ok" /\ exp.outcome = "failed"

\* C31: when an export invocation completes successfully on the mounted page, the
\* session's error is null, whatever an earlier export or an earlier step recorded.
C31_ExportSuccessClearsError ==
  [][(mounted /\ ev' = "exportSettled" /\ exp'.outcome = "ok") => error' = NullStr]_vars

\* C32: in the FFmpeg client, when a submit run completes successfully on the
\* mounted page the session holds the transcript with error null, whether or not
\* loadFFmpeg settled (either way) while the run was in flight.
C32_LateEngineLoadHarmless ==
  [][(variant = "ffmpeg" /\ mounted /\ ev' = "transcribeSettled" /\ run'.outcome = "ok")
       => (transcriptTurns'.present /\ error' = NullStr)]_vars

\* C33: in every state of the presigned-upload client's mounted page, a non-null
\* geminiFileName or r2ObjectKey comes with a non-null transcript.
C33_HandlesImplyTranscript ==
  (variant = "presigned" /\ mounted /\ (geminiFileName # 0 \/ r2ObjectKey # 0))
    => transcriptTurns.present

\* A release request was rejected, so the handles stay, beside the transcript.
C33_Witness ==
  /\ variant = "presigned" /\ mounted /\ ev = "releaseRejected"
  /\ geminiFileName # 0 /\ r2ObjectKey # 0 /\ transcriptTurns.present

====
